---- MODULE Spec2Model ----
(***************************************************************************)
(* A model of kmc-rs (src/src/lib.rs, src/src/cxxbridge.rs): the Rust      *)
(* wrapper types KmcFile and Kmer around the KMC engine reached through    *)
(* the cxx bridge.                                                         *)
(*                                                                         *)
(* Representation.                                                         *)
(*   - A text is a sequence of one-character strings, "TAAGA" is           *)
(*     <<"T","A","A","G","A">>.                                            *)
(*   - A k-mer (ffi::Kmer) is the sequence of its k two-bit symbol codes,  *)
(*     first symbol first.                                                 *)
(*   - A u64 is the sequence of its base-4 digits (two bits each), most    *)
(*     significant first, without leading zeros and at most 32 long:       *)
(*     the full 64-bit width, which TLC's integers cannot hold.            *)
(*   - The functions behind the bridge (cxxbridge.rs declares them, their  *)
(*     bodies are C++) are the operators named ffi_*.                      *)
(***************************************************************************)
EXTENDS Integers, Sequences, FiniteSets, TLC

\* Bounds of the model.
MaxLen == 3      \* longest text / k-mer drawn exhaustively
MaxRecs == 3     \* records of the largest small database
MaxCount == 2    \* counts stored in the databases are 1..MaxCount

\* Program constants.
U64Digits == 32  \* a u64 holds 32 two-bit digits (lib.rs:226, `self.len() <= 32`)
U8Max == 255     \* largest k of Kmer::with_k(k: u8) (lib.rs:189)

VARIABLES
    debug,     \* build configuration: debug_assertions enabled
    proc,      \* "run" | "unwind" (a panic is unwinding) | "done" | "abort"
    fst,       \* the KmcFile value: "none" | "open" | "dropped"
    mode,      \* how its ffi::KmcFile was opened: "none" | "ra" | "iter"
    db,        \* name of the database behind it
    cursor,    \* listing position of the ffi::KmcFile: records already read
    closes,    \* number of ffi close() calls made on the instance
    it,        \* TRUE while a KmcFileIterU64 borrows the file
    kmer,      \* the caller's Kmer: Some(its sequence of codes), or NoKmer
    arg,       \* the inputs the program was started with (codec runs)
    outcome,   \* what the last operation returned
    out,       \* records yielded in this pass: since open / the last restart
    done,      \* Some(out) once this pass reached the end of the file, or NoDrain
    prev,      \* Some(the drain of the last earlier pass that reached the end), or NoDrain
    held       \* method calls on the KmcFile that have begun and not returned

vars == <<debug, proc, fst, mode, db, cursor, closes, it, kmer, arg, outcome, out, done, prev,
          held>>

\* An optional value is a sequence of no or one element.
None == <<>>
Some(x) == <<x>>
NoKmer == None
NoDrain == None

-----------------------------------------------------------------------------
\* Sequences and digits.

RECURSIVE Pow4(_)
Pow4(n) == IF n = 0 THEN 1 ELSE 4 * Pow4(n - 1)

Zeros(n) == [i \in 1..n |-> 0]

RECURSIVE StripZeros(_)
StripZeros(s) == IF s # <<>> /\ Head(s) = 0 THEN StripZeros(Tail(s)) ELSE s

LastN(s, n) == IF Len(s) <= n THEN s ELSE SubSeq(s, Len(s) - n + 1, Len(s))

FirstN(s, n) == IF Len(s) <= n THEN s ELSE SubSeq(s, 1, n)

\* The u64 of a small natural number.
RECURSIVE DigitsOf(_)
DigitsOf(n) == IF n = 0 THEN <<>> ELSE Append(DigitsOf(n \div 4), n % 4)

\* Order on sequences of codes of one length (the order of the packed values).
RECURSIVE SeqLess(_, _)
SeqLess(a, b) ==
    IF a = <<>> \/ b = <<>> THEN FALSE
    ELSE IF Head(a) # Head(b) THEN Head(a) < Head(b)
    ELSE SeqLess(Tail(a), Tail(b))

-----------------------------------------------------------------------------
\* The symbol codes, as the doctests and tests fix them:
\*   set_u64(0b11_00_00_10_00) on a 5-mer prints "TAAGA"        (T=11 A=00 G=10)
\*   from_u64(12, 0b1101_0000_0101_1111_1010_0000) prints "TCAACCTTGGAA" (C=01)
CodeOfSwapped(c) ==
    CASE c \in {"A", "a"} -> 0
      [] c \in {"C", "c"} -> 1
      [] c \in {"T", "t"} -> 2
      [] c \in {"G", "g"} -> 3

CodeOf(c) ==
    CASE c \in {"A", "a"} -> 0
      [] c \in {"C", "c"} -> 1
      [] c \in {"G", "g"} -> 2
      [] c \in {"T", "t"} -> 3

SymOf(code) ==
    CASE code = 0 -> "A"
      [] code = 1 -> "C"
      [] code = 2 -> "G"
      [] code = 3 -> "T"

UpperBases == {"A", "C", "G", "T"}

Bases == UpperBases \cup {"a", "c", "g", "t"}

-----------------------------------------------------------------------------
\* ffi::Kmer, the functions cxxbridge.rs declares.

\* new_kmerapi(): an empty k-mer.
ffi_new_kmerapi == <<>>

\* new_kmerapi_with_len(k): room for k symbols, cleared.
ffi_new_kmerapi_with_len(k) == Zeros(k)

\* from_string that knows the upper-case letters only.
ffi_from_string_upper(self, text) ==
    IF \A i \in 1..Len(text) : text[i] \in UpperBases
    THEN [ok |-> TRUE, kmer |-> [i \in 1..Len(text) |-> CodeOf(text[i])]]
    ELSE [ok |-> FALSE, kmer |-> self]

\* from_string(text): [ok, kmer]. Fails on a character that is no base.
ffi_from_string(self, text) ==
    IF \A i \in 1..Len(text) : text[i] \in Bases
    THEN [ok |-> TRUE, kmer |-> [i \in 1..Len(text) |-> CodeOf(text[i])]]
    ELSE [ok |-> FALSE, kmer |-> self]

\* set_u64 that stores the smaller of the k-mer and its reverse complement.
ffi_set_u64_canonical(self, val) ==
    LET taken == LastN(Zeros(Len(self)) \o val, Len(self))
        rc == [i \in 1..Len(taken) |-> 3 - taken[Len(taken) + 1 - i]]
        rcBelow == \E i \in 1..Len(taken) :
                      /\ rc[i] < taken[i]
                      /\ \A j \in 1..(i - 1) : rc[j] = taken[j]
    IN  IF Len(self) > U64Digits
        THEN [ok |-> FALSE, kmer |-> self]
        ELSE [ok |-> TRUE, kmer |-> IF rcBelow THEN rc ELSE taken]

\* set_u64(val): [ok, kmer]. The low 2*len bits of val become the symbols;
\* a k-mer longer than one word is refused.
ffi_set_u64(self, val) ==
    IF Len(self) > U64Digits
    THEN [ok |-> FALSE, kmer |-> self]
    ELSE [ok |-> TRUE,
          kmer |-> LastN(Zeros(Len(self)) \o val, Len(self))]

\* to_string()
ffi_to_string(self) == [i \in 1..Len(self) |-> SymOf(self[i])]

\* kmer_len()
ffi_kmer_len(self) == Len(self)

\* as_u64(): the first 64 bits; all of the k-mer when len <= 32.
ffi_as_u64(self) == StripZeros(FirstN(self, U64Digits))

-----------------------------------------------------------------------------
\* impl Kmer (lib.rs 178-246).

fileVars == <<fst, mode, db, cursor, closes, it, out, done, prev>>

NoArg == [text |-> <<>>, k |-> 0, val |-> <<>>]

\* What an operation returned: kind is the variant ("ok", "err", "some", "none",
\* "value", "unit", "panic"), val its payload, ffi what the bridge call under it
\* reported ("ok", "failed", or "na" when there is none or it has no status).
Ret(op, kind, val, ffi) == [op |-> op, kind |-> kind, val |-> val, ffi |-> ffi]

\* Kmer::len
Kmer_len(self) == ffi_kmer_len(self)

\* Kmer::as_u64
as_u64(self) == ffi_as_u64(self)

\* Display for Kmer
to_string(self) == ffi_to_string(self)

\* Kmer::with_k
with_k(k) == ffi_new_kmerapi_with_len(k)

\* The check at the head of Kmer::set_u64: debug_assert!(self.len() <= 32),
\* compiled only with debug assertions.
set_u64_asserts(self) == debug /\ ~(Kmer_len(self) <= U64Digits)

\* Kmer::from(text)
Kmer_from(text) ==
    /\ proc = "run"
    /\ LET r == ffi_from_string(ffi_new_kmerapi, text) IN
        /\ kmer' = IF r.ok THEN Some(r.kmer) ELSE NoKmer
        /\ outcome' = Ret("Kmer::from", IF r.ok THEN "ok" ELSE "err", 0,
                          IF r.ok THEN "ok" ELSE "failed")
    /\ UNCHANGED <<debug, held, proc, fileVars, arg>>

\* Kmer::with_k(k)
Kmer_with_k(k) ==
    /\ proc = "run"
    /\ kmer' = Some(with_k(k))
    /\ outcome' = Ret("Kmer::with_k", "value", 0, "na")
    /\ UNCHANGED <<debug, held, proc, fileVars, arg>>

\* Kmer::set_u64(val) on the caller's Kmer; the bool of ffi set_u64 is dropped.
Kmer_set_u64(val) ==
    /\ proc = "run"
    /\ kmer # NoKmer
    /\ IF set_u64_asserts(kmer[1])
       THEN /\ proc' = "unwind"
            /\ kmer' = NoKmer
            /\ outcome' = Ret("Kmer::set_u64", "panic", 0, "na")
       ELSE LET r == ffi_set_u64(kmer[1], val) IN
            /\ proc' = proc
            /\ kmer' = Some(r.kmer)
            /\ outcome' = Ret("Kmer::set_u64", "unit", 0,
                              IF r.ok THEN "ok" ELSE "failed")
    /\ UNCHANGED <<debug, held, fileVars, arg>>

\* Kmer::from_u64(k, val): with_k(k), then set_u64(val) on it.
Kmer_from_u64(k, val) ==
    /\ proc = "run"
    /\ LET new == with_k(k) IN
       IF set_u64_asserts(new)
       THEN /\ proc' = "unwind"
            /\ kmer' = NoKmer
            /\ outcome' = Ret("Kmer::from_u64", "panic", 0, "na")
       ELSE LET r == ffi_set_u64(new, val) IN
            /\ proc' = proc
            /\ kmer' = Some(r.kmer)
            /\ outcome' = Ret("Kmer::from_u64", "value", 0,
                              IF r.ok THEN "ok" ELSE "failed")
    /\ UNCHANGED <<debug, held, fileVars, arg>>

\* Kmer::as_u64() of the caller's Kmer.
Kmer_as_u64 ==
    /\ proc = "run"
    /\ kmer # NoKmer
    /\ outcome' = Ret("Kmer::as_u64", "value", as_u64(kmer[1]), "na")
    /\ UNCHANGED <<debug, held, proc, fileVars, kmer, arg>>

\* to_string() of the caller's Kmer.
Kmer_to_string ==
    /\ proc = "run"
    /\ kmer # NoKmer
    /\ outcome' = Ret("Kmer::to_string", "value", to_string(kmer[1]), "na")
    /\ UNCHANGED <<debug, held, proc, fileVars, kmer, arg>>

\* A panic unwinds to the end of the program once no KmcFile is left to drop.
UnwindExit ==
    /\ proc = "unwind"
    /\ fst # "open"
    /\ proc' = "done"
    /\ UNCHANGED <<debug, held, fileVars, kmer, arg, outcome>>

-----------------------------------------------------------------------------
\* The databases on disk. A record is a stored canonical k-mer and its count;
\* records are stored in increasing order of the packed k-mer.

Complement(code) == 3 - code                  \* A <-> T, C <-> G

RevComp(s) == [i \in 1..Len(s) |-> Complement(s[Len(s) + 1 - i])]

Canonical(s) == IF SeqLess(RevComp(s), s) THEN RevComp(s) ELSE s

KmerOfNat(k, n) == LastN(Zeros(k) \o DigitsOf(n), k)

\* The canonical k-mers whose packed value is at least n, in increasing order.
RECURSIVE CanonicalFrom(_, _)
CanonicalFrom(k, n) ==
    IF n >= Pow4(k) THEN <<>>
    ELSE IF Canonical(KmerOfNat(k, n)) = KmerOfNat(k, n)
         THEN <<KmerOfNat(k, n)>> \o CanonicalFrom(k, n + 1)
         ELSE CanonicalFrom(k, n + 1)

Rec(s, i) == [kmer |-> s, count |-> ((i - 1) % MaxCount) + 1]

\* Every second canonical 2-mer, MaxRecs of them: stored and absent k-mers alternate.
Records2 ==
    LET all == CanonicalFrom(2, 0) IN
    [i \in 1..MaxRecs |-> Rec(all[2 * i - 1], i)]

DbNames == {"d1", "d2", "e2", "d256"}

Database(name) ==
    CASE name = "d1" -> [k |-> 1, recs |-> <<Rec(<<0>>, 1), Rec(<<1>>, 2)>>]
      [] name = "d2" -> [k |-> 2, recs |-> Records2]
      [] name = "e2" -> [k |-> 2, recs |-> <<>>]
      [] name = "d256" -> [k |-> U8Max + 1, recs |-> <<Rec(Zeros(U8Max + 1), 1)>>]

FileNames == DbNames \cup {"missing"}

-----------------------------------------------------------------------------
\* ffi::KmcFile, the functions cxxbridge.rs declares. The C++ object is
\* f = [mode, db, cursor].

\* open_for_ra(fname), open_for_iter(fname): whether the file pair opened.
ffi_open_for_ra(fname) == fname \in DbNames
ffi_open_for_iter(fname) == fname \in DbNames

\* kmer_len() of the file
ffi_file_kmer_len(f) == Database(f.db).k

\* kmer_count()
ffi_kmer_count(f) == Len(Database(f.db).recs)

\* check_kmer that looks up the k-mer as given, in the caller's orientation.
ffi_check_kmer_raw(f, k) ==
    LET recs == Database(f.db).recs
        hits == {i \in 1..Len(recs) : recs[i].kmer = k}
    IN  IF f.mode # "ra" \/ hits = {} THEN 0
        ELSE recs[CHOOSE i \in hits : TRUE].count

\* check_kmer that answers whether the k-mer is stored, 1 or 0.
ffi_check_kmer_present(f, k) ==
    LET recs == Database(f.db).recs
        hits == {i \in 1..Len(recs) : recs[i].kmer = Canonical(k)}
    IN  IF f.mode # "ra" \/ hits = {} THEN 0 ELSE 1

\* check_kmer(kmer): the count stored for the canonical form of kmer, 0 when it
\* is not stored; 0 as well when the file is not open for random access.
ffi_check_kmer(f, k) ==
    LET recs == Database(f.db).recs
        hits == {i \in 1..Len(recs) : recs[i].kmer = Canonical(k)}
    IN  IF f.mode # "ra" \/ hits = {} THEN 0
        ELSE recs[CHOOSE i \in hits : TRUE].count

\* next(kmer, count): [ok, kmer, count, cursor]. Reads the record at the cursor
\* into kmer and count and moves on; fails at the end of the file and when the
\* file is not open for listing.
ffi_next(f, k) ==
    LET recs == Database(f.db).recs IN
    IF f.mode = "iter" /\ f.cursor < Len(recs)
    THEN [ok |-> TRUE, kmer |-> recs[f.cursor + 1].kmer,
          count |-> recs[f.cursor + 1].count, cursor |-> f.cursor + 1]
    ELSE [ok |-> FALSE, kmer |-> k, count |-> 0, cursor |-> f.cursor]

\* restart_listing(): [ok, cursor]. Back to the first record; fails when the
\* file is not open for listing.
ffi_restart_listing(f) ==
    IF f.mode = "iter" THEN [ok |-> TRUE, cursor |-> 0]
    ELSE [ok |-> FALSE, cursor |-> f.cursor]

-----------------------------------------------------------------------------
\* impl KmcFile (lib.rs 27-168) and impl Drop for KmcFile (lib.rs 170-176).

Self == [mode |-> mode, db |-> db, cursor |-> cursor]

\* A public method can be called: the value is alive and nothing borrows it.
Callable == proc = "run" /\ fst = "open" /\ ~it

\* KmcFile::kmer_length
kmer_length == ffi_file_kmer_len(Self)

\* What a pass has yielded so far, and the bookkeeping of a read that the
\* bridge answered: a record yielded, or the end of a drain.
Yield(bits, count) == Append(out, [bits |-> bits, count |-> count])

DrainEnds == IF mode = "iter" /\ done = NoDrain THEN Some(out) ELSE done

\* KmcFile::open_ra(fname)
open_ra(fname) ==
    /\ proc = "run"
    /\ fst = "none"
    /\ IF ffi_open_for_ra(fname)
       THEN /\ fst' = "open"
            /\ mode' = "ra"
            /\ db' = fname
            /\ outcome' = Ret("open_ra", "ok", 0, "ok")
       ELSE /\ UNCHANGED <<fst, mode, db>>
            /\ outcome' = Ret("open_ra", "err", 0, "failed")
    /\ UNCHANGED <<debug, held, proc, cursor, closes, it, out, done, prev, kmer, arg>>

\* KmcFile::open_iter(fname)
open_iter(fname) ==
    /\ proc = "run"
    /\ fst = "none"
    /\ IF ffi_open_for_iter(fname)
       THEN /\ fst' = "open"
            /\ mode' = "iter"
            /\ db' = fname
            /\ outcome' = Ret("open_iter", "ok", 0, "ok")
       ELSE /\ UNCHANGED <<fst, mode, db>>
            /\ outcome' = Ret("open_iter", "err", 0, "failed")
    /\ UNCHANGED <<debug, held, proc, cursor, closes, it, out, done, prev, kmer, arg>>

\* KmcFile::kmer_length()
KmcFile_kmer_length ==
    /\ Callable
    /\ outcome' = Ret("kmer_length", "value", kmer_length, "na")
    /\ UNCHANGED <<debug, held, proc, fileVars, kmer, arg>>

\* num_kmers that counts by listing the file from the start.
num_kmers_rescans ==
    /\ Callable
    /\ cursor' = 0
    /\ outcome' = Ret("num_kmers", "value", ffi_kmer_count(Self), "na")
    /\ UNCHANGED <<debug, held, proc, fst, mode, db, closes, it, out, done, prev, kmer, arg>>

\* KmcFile::num_kmers()
num_kmers ==
    /\ Callable
    /\ outcome' = Ret("num_kmers", "value", ffi_kmer_count(Self), "na")
    /\ UNCHANGED <<debug, held, proc, fileVars, kmer, arg>>

\* KmcFile::count_kmer(&kmer): a usize, whatever the mode.
count_kmer ==
    /\ Callable
    /\ kmer # NoKmer
    /\ outcome' = Ret("count_kmer", "value", ffi_check_kmer(Self, kmer[1]), "na")
    /\ UNCHANGED <<debug, held, proc, fileVars, kmer, arg>>

\* restart that reports success and leaves the listing where it is.
restart_keeps_cursor ==
    /\ Callable
    /\ LET r == ffi_restart_listing(Self) IN
        /\ cursor' = cursor
        /\ outcome' = Ret("restart", "value", r.ok, IF r.ok THEN "ok" ELSE "failed")
        /\ out' = IF r.ok THEN <<>> ELSE out
        /\ done' = IF r.ok THEN NoDrain ELSE done
        /\ prev' = IF r.ok /\ done # NoDrain THEN done ELSE prev
    /\ UNCHANGED <<debug, held, proc, fst, mode, db, closes, it, kmer, arg>>

\* restart that opens the file for listing when it was not.
restart_reopens ==
    /\ Callable
    /\ mode' = "iter"
    /\ cursor' = 0
    /\ outcome' = Ret("restart", "value", TRUE, "ok")
    /\ out' = <<>>
    /\ done' = NoDrain
    /\ prev' = IF done # NoDrain THEN done ELSE prev
    /\ UNCHANGED <<debug, held, proc, fst, db, closes, it, kmer, arg>>

\* KmcFile::restart(): the bool of restart_listing.
restart ==
    /\ Callable
    /\ LET r == ffi_restart_listing(Self) IN
        /\ cursor' = r.cursor
        /\ outcome' = Ret("restart", "value", r.ok, IF r.ok THEN "ok" ELSE "failed")
        /\ out' = IF r.ok THEN <<>> ELSE out
        /\ done' = IF r.ok THEN NoDrain ELSE done
        /\ prev' = IF r.ok /\ done # NoDrain THEN done ELSE prev
    /\ UNCHANGED <<debug, held, proc, fst, mode, db, closes, it, kmer, arg>>

\* read_next_unchecked that moves past two records for each one it returns.
read_next_unchecked_skips ==
    LET r == ffi_next(Self, kmer[1]) IN
    /\ cursor' = IF r.ok THEN r.cursor + 1 ELSE r.cursor
    /\ kmer' = Some(r.kmer)
    /\ IF r.ok
       THEN /\ outcome' = Ret("read_next", "some", r.count, "ok")
            /\ out' = Yield(as_u64(r.kmer), r.count)
            /\ done' = done
       ELSE /\ outcome' = Ret("read_next", "none", 0, "failed")
            /\ out' = out
            /\ done' = DrainEnds

\* KmcFile::read_next_unchecked(&mut kmer), as read_next calls it.
read_next_unchecked ==
    LET r == ffi_next(Self, kmer[1]) IN
    /\ cursor' = r.cursor
    /\ kmer' = Some(r.kmer)
    /\ IF r.ok
       THEN /\ outcome' = Ret("read_next", "some", r.count, "ok")
            /\ out' = Yield(as_u64(r.kmer), r.count)
            /\ done' = done
       ELSE /\ outcome' = Ret("read_next", "none", 0, "failed")
            /\ out' = out
            /\ done' = DrainEnds

\* read_next without the comparison of the lengths.
read_next_unguarded ==
    /\ Callable
    /\ kmer # NoKmer
    /\ read_next_unchecked
    /\ UNCHANGED <<debug, held, proc, fst, mode, db, closes, it, prev, arg>>

\* KmcFile::read_next(&mut kmer)
read_next ==
    /\ Callable
    /\ kmer # NoKmer
    /\ IF Kmer_len(kmer[1]) = kmer_length
       THEN read_next_unchecked
       ELSE /\ outcome' = Ret("read_next", "none", 0, "na")
            /\ UNCHANGED <<cursor, kmer, out, done>>
    /\ UNCHANGED <<debug, held, proc, fst, mode, db, closes, it, prev, arg>>

\* KmcFile::iter_u64(): kmer_length().try_into().unwrap() to a u8, then the
\* iterator, which borrows the file.
iter_u64 ==
    /\ Callable
    /\ IF kmer_length > U8Max
       THEN /\ proc' = "unwind"
            /\ it' = it
            /\ outcome' = Ret("iter_u64", "panic", 0, "na")
       ELSE /\ proc' = proc
            /\ it' = TRUE
            /\ outcome' = Ret("iter_u64", "value", 0, "na")
    /\ UNCHANGED <<debug, held, fst, mode, db, cursor, closes, out, done, prev, kmer, arg>>

\* KmcFileIterU64::next(), on the iterator's own Kmer::with_k(k).
iter_next ==
    /\ proc = "run"
    /\ fst = "open"
    /\ it
    /\ LET r == ffi_next(Self, with_k(kmer_length)) IN
        /\ cursor' = r.cursor
        /\ IF r.ok
           THEN /\ outcome' = Ret("iter_next", "some",
                                  [bits |-> as_u64(r.kmer), count |-> r.count], "ok")
                /\ out' = Yield(as_u64(r.kmer), r.count)
                /\ done' = done
           ELSE /\ outcome' = Ret("iter_next", "none", 0, "failed")
                /\ out' = out
                /\ done' = DrainEnds
    /\ UNCHANGED <<debug, held, proc, fst, mode, db, closes, it, prev, kmer, arg>>

\* The iterator goes out of scope: the borrow of the file ends.
iter_drop ==
    /\ proc = "run"
    /\ it
    /\ it' = FALSE
    /\ outcome' = Ret("iter_drop", "unit", 0, "na")
    /\ UNCHANGED <<debug, held, proc, fst, mode, db, cursor, closes, out, done, prev, kmer, arg>>

\* A drop that releases the value without calling close().
drop_without_close(closed) ==
    /\ proc \in {"run", "unwind"}
    /\ fst = "open"
    /\ fst' = "dropped"
    /\ it' = FALSE
    /\ closes' = closes
    /\ proc' = proc
    /\ outcome' = Ret("drop", "unit", 0, "na")
    /\ UNCHANGED <<debug, held, mode, db, cursor, out, done, prev, kmer, arg>>

\* Drop for KmcFile, when the value goes out of scope or a panic unwinds past
\* it (an iterator borrowing it has gone before): close(), and a panic when
\* close() reports failure. A panic while unwinding aborts the process.
drop(closed) ==
    /\ proc \in {"run", "unwind"}
    /\ fst = "open"
    /\ fst' = "dropped"
    /\ it' = FALSE
    /\ closes' = closes + 1
    /\ IF closed
       THEN /\ proc' = proc
            /\ outcome' = Ret("drop", "unit", 0, "ok")
       ELSE /\ proc' = IF proc = "unwind" THEN "abort" ELSE "unwind"
            /\ outcome' = Ret("drop", "panic", 0, "failed")
    /\ UNCHANGED <<debug, held, mode, db, cursor, out, done, prev, kmer, arg>>

-----------------------------------------------------------------------------
\* Inputs.

Chars == Bases \cup {"N"}

RECURSIVE SeqsUpTo(_, _)
SeqsUpTo(S, n) ==
    IF n = 0 THEN {<<>>}
    ELSE LET shorter == SeqsUpTo(S, n - 1) IN
         shorter \cup {Append(s, x) : s \in {t \in shorter : Len(t) = n - 1}, x \in S}

TAAGA == <<"T", "A", "A", "G", "A">>
TCAACCTTGGAA == <<"T", "C", "A", "A", "C", "C", "T", "T", "G", "G", "A", "A">>

\* a 5-mer that starts with "TG" (lib.rs 60)
TGAAA == <<"T", "G", "A", "A", "A">>

\* 0b11_00_00_10_00 and 0b1101_0000_0101_1111_1010_0000
BitsTAAGA == <<3, 0, 0, 2, 0>>
BitsTCAACCTTGGAA == <<3, 1, 0, 0, 1, 1, 3, 3, 2, 2, 0, 0>>
\* 0b1111...1_01 (lib.rs 308), 63 bits: 0b01, 30 digits 0b11, then 0b01
Bits31T == [i \in 1..U64Digits |-> IF i \in {1, U64Digits} THEN 1 ELSE 3]

Texts == SeqsUpTo(Chars, MaxLen)
         \cup {TAAGA, TCAACCTTGGAA, <<"T", "C", "N">>, <<"a", "c", "t", "G">>, TGAAA}

Vals == {DigitsOf(n) : n \in 0..(Pow4(MaxLen + 1) - 1)}
        \cup {BitsTAAGA, BitsTCAACCTTGGAA, Bits31T}

Ks == (0..MaxLen) \cup {5, 12, 31, U64Digits, U64Digits + 1, U8Max}

InitFile ==
    /\ fst = "none"
    /\ mode = "none"
    /\ db = "none"
    /\ cursor = 0
    /\ closes = 0
    /\ it = FALSE
    /\ out = <<>>
    /\ done = NoDrain
    /\ prev = NoDrain
    /\ held = {}

Init ==
    /\ debug \in BOOLEAN
    /\ proc = "run"
    /\ InitFile
    /\ kmer = NoKmer
    /\ arg = NoArg
    /\ outcome = Ret("start", "unit", 0, "na")

\* The inputs of a codec run: a text, or a length and a 64-bit value.
Inputs ==
    {[NoArg EXCEPT !.text = t] : t \in Texts}
    \cup {[NoArg EXCEPT !.k = k, !.val = v] : k \in Ks, v \in Vals}

InitKmer ==
    /\ debug \in BOOLEAN
    /\ proc = "run"
    /\ InitFile
    /\ kmer = NoKmer
    /\ arg \in Inputs
    /\ outcome = Ret("start", "unit", 0, "na")

\* The Kmer operations alone, applied to the inputs of the run.
NextKmer ==
    \/ Kmer_from(arg.text)
    \/ Kmer_with_k(arg.k)
    \/ Kmer_set_u64(arg.val)
    \/ Kmer_from_u64(arg.k, arg.val)
    \/ Kmer_as_u64
    \/ Kmer_to_string
    \/ UnwindExit

SpecKmer == InitKmer /\ [][NextKmer]_vars

\* The k-mers a caller of the file operations holds: every text of the length
\* of the small databases or shorter, and empty buffers of their lengths and
\* one more.
QueryTexts == {t \in SeqsUpTo(UpperBases, 2) : Len(t) >= 1}
BufferKs == 1..3

\* The file operations, with the Kmer operations that make their arguments.
Next ==
    \/ \E fname \in FileNames : open_ra(fname)
    \/ \E fname \in FileNames : open_iter(fname)
    \/ KmcFile_kmer_length
    \/ num_kmers
    \/ count_kmer
    \/ restart
    \/ read_next
    \/ iter_u64
    \/ iter_next
    \/ iter_drop
    \/ \E closed \in BOOLEAN : drop(closed)
    \/ \E text \in QueryTexts : Kmer_from(text)
    \/ \E k \in BufferKs : Kmer_with_k(k)
    \/ UnwindExit

Spec == Init /\ [][Next]_vars

-----------------------------------------------------------------------------
\* Claims about the codec, checked under SpecKmer.

IsUpperText(t) == \A i \in 1..Len(t) : t[i] \in UpperBases

\* The table the documentation of set_u64 gives (lib.rs 212-216), and the
\* table with the codes of G and T exchanged.
DocTable == [c \in UpperBases |-> CASE c = "A" -> 0 [] c = "C" -> 1 [] c = "T" -> 2 [] c = "G" -> 3]
TestTable == [c \in UpperBases |-> CASE c = "A" -> 0 [] c = "C" -> 1 [] c = "G" -> 2 [] c = "T" -> 3]

\* The 2-bit codes of a text under a table, first symbol most significant, as a u64.
Concatenation(t, table) == StripZeros([i \in 1..Len(t) |-> table[t[i]]])

\* The k symbols a table gives the low 2*k bits of val, highest pair first.
DigitAt(val, k, i) ==
    LET pos == Len(val) - k + i IN IF pos >= 1 THEN val[pos] ELSE 0

TextOfBits(k, val, table) ==
    [i \in 1..k |-> CHOOSE c \in UpperBases : table[c] = DigitAt(val, k, i)]

FromOk == outcome.op = "Kmer::from" /\ outcome.kind = "ok"
FromU64Done == outcome.op = "Kmer::from_u64" /\ outcome.kind = "value"
SetU64Done == outcome.op = "Kmer::set_u64" /\ outcome.kind = "unit"

PackedAs(table) ==
    /\ (FromOk /\ IsUpperText(arg.text) /\ Len(arg.text) <= U64Digits)
          => as_u64(kmer[1]) = Concatenation(arg.text, table)
    /\ (FromU64Done /\ arg.k <= U64Digits)
          => to_string(kmer[1]) = TextOfBits(arg.k, arg.val, table)
    /\ (SetU64Done /\ Len(kmer[1]) <= U64Digits)
          => to_string(kmer[1]) = TextOfBits(Len(kmer[1]), arg.val, table)

DocExamples ==
    /\ ((FromU64Done \/ SetU64Done) /\ Len(kmer[1]) = 5 /\ arg.val = BitsTAAGA)
          => to_string(kmer[1]) = TAAGA
    /\ (FromU64Done /\ arg.k = 12 /\ arg.val = BitsTCAACCTTGGAA)
          => to_string(kmer[1]) = TCAACCTTGGAA

-----------------------------------------------------------------------------
\* Claims about the file operations, checked under Spec.

Recs == Database(db).recs

\* The stored records as a listing yields them.
Stored == [i \in 1..Len(Recs) |-> [bits |-> as_u64(Recs[i].kmer), count |-> Recs[i].count]]

FileOps == {"kmer_length", "num_kmers", "count_kmer", "restart", "read_next",
            "iter_u64", "iter_next", "iter_drop"}

\* C1 as stated: count_kmer on a file opened with open_iter ends in an
\* explicit error, not in a count.
C1_CountKmerOnIterIsError ==
    (outcome.op = "count_kmer" /\ mode = "iter") => outcome.kind = "err"

\* C2 as stated: read_next, the iterator's next and restart on a file opened
\* with open_ra end in an explicit error (for restart, the bool false), not in
\* the None of the end of the file.
C2_ListingOnRaIsError ==
    (outcome.op \in {"read_next", "iter_next", "restart"} /\ mode = "ra")
        => \/ outcome.kind = "err"
           \/ (outcome.op = "restart" /\ outcome.val = FALSE)

\* C3 as stated: on an Iterator-mode file read_next returns None only when the
\* cursor has passed the last stored record, whatever buffer it is given.
C3_NoneOnlyAtEnd ==
    (outcome.op = "read_next" /\ mode = "iter" /\ outcome.kind = "none")
        => cursor = Len(Recs)

\* C4: on an Iterator-mode file, a pass that reaches the end of the file has
\* yielded every stored record from the first one on, in stored order, however
\* far the cursor was when restart began the pass; so the drains of two passes
\* are the same sequence.
C4_RestartIdempotence ==
    (mode = "iter" /\ done # NoDrain)
        => /\ done[1] = Stored
           /\ prev # NoDrain => done[1] = prev[1]

\* Two passes over the largest database, a restart between them, have both
\* reached the end of the file.
C4_Witness ==
    /\ mode = "iter"
    /\ done # NoDrain
    /\ prev # NoDrain
    /\ Len(done[1]) = MaxRecs
    /\ Len(prev[1]) = MaxRecs

\* C5: close() is called once on every opened KmcFile, when it is dropped, and
\* never otherwise: not before the drop, not twice, also when a panic ends the
\* program; and no operation of the instance runs after it.
C5_ClosedOnceOnDrop ==
    /\ closes = (IF fst = "dropped" THEN 1 ELSE 0)
    /\ proc \in {"done", "abort"} => fst # "open"
    /\ fst = "dropped" => (~it /\ outcome.op \notin FileOps)

\* A listing abandoned between two records, the file dropped and closed.
C5_Witness ==
    /\ fst = "dropped"
    /\ closes = 1
    /\ mode = "iter"
    /\ cursor > 0
    /\ cursor < Len(Recs)

\* C7: a first pass over an Iterator-mode file that reached the end of the file
\* yielded as many records as num_kmers() returns, and each stored k-mer once.
C7_IterationCountsNumKmers ==
    (mode = "iter" /\ done # NoDrain /\ prev = NoDrain)
        => /\ outcome.op = "num_kmers" => outcome.val = Len(done[1])
           /\ \A i, j \in 1..Len(done[1]) :
                 done[1][i].bits = done[1][j].bits => i = j
           /\ {done[1][i].bits : i \in 1..Len(done[1])}
                 = {as_u64(Recs[i].kmer) : i \in 1..Len(Recs)}

\* num_kmers() has answered after a first full pass over the largest database.
C7_Witness ==
    /\ mode = "iter"
    /\ done # NoDrain
    /\ prev = NoDrain
    /\ outcome.op = "num_kmers"
    /\ outcome.val = MaxRecs

\* C8: on a RandomAccess-mode file, count_kmer of a k-mer of the database's
\* length is the count stored for its canonical form, 0 exactly when that form
\* is not stored, and equals count_kmer of its reverse complement.
C8_CountIsCanonical ==
    (outcome.op = "count_kmer" /\ mode = "ra" /\ Kmer_len(kmer[1]) = kmer_length)
        => LET x == kmer[1]
               smaller == IF SeqLess(RevComp(x), x) THEN RevComp(x) ELSE x
               at == {i \in 1..Len(Recs) : Recs[i].kmer = smaller}
           IN  /\ outcome.val = ffi_check_kmer(Self, RevComp(x))
               /\ outcome.val = 0 <=> at = {}
               /\ \A i \in at : outcome.val = Recs[i].count

\* count_kmer has found a k-mer that was asked for in the orientation that is
\* not stored.
C8_Witness ==
    /\ outcome.op = "count_kmer"
    /\ mode = "ra"
    /\ Kmer_len(kmer[1]) = kmer_length
    /\ SeqLess(RevComp(kmer[1]), kmer[1])
    /\ outcome.val > 0

\* C9 as stated: from_u64 and set_u64 never return with a Kmer of more than 32
\* symbols, in any build, nor after the bridge's set_u64 reported failure.
C9_NoLongKmerFromU64 ==
    (outcome.op \in {"Kmer::from_u64", "Kmer::set_u64"} /\ outcome.kind # "panic")
        => /\ Kmer_len(kmer[1]) <= U64Digits
           /\ outcome.ffi # "failed"

\* C10 as stated: nothing panics but a drop whose close() failed.
C10_OnlyDropPanics ==
    outcome.kind = "panic" => outcome.op = "drop"

\* What an open has just returned: Ok with the instance in the mode asked for,
\* or Err with no instance.
OpenSetsMode ==
    /\ (outcome.op = "open_ra" /\ outcome.kind = "ok") => (fst = "open" /\ mode = "ra")
    /\ (outcome.op = "open_iter" /\ outcome.kind = "ok") => (fst = "open" /\ mode = "iter")
    /\ (outcome.op \in {"open_ra", "open_iter"} /\ outcome.kind = "err")
          => (fst = "none" /\ mode = "none")

\* C11: a successful open_ra leaves the instance in RandomAccess mode and a
\* successful open_iter in Iterator mode, a failed open leaves no instance, and
\* no step changes the mode or the database of an instance once it is open.
C11_ModeFixedAtOpen ==
    /\ []OpenSetsMode
    /\ [][fst # "none" => (mode' = mode /\ db' = db)]_vars

\* restart has been called on a file opened with open_ra, which still is in
\* RandomAccess mode.
C11_Witness ==
    /\ fst = "open"
    /\ mode = "ra"
    /\ outcome.op = "restart"

-----------------------------------------------------------------------------
\* The letters Kmer::from is to accept, and each with its upper-case letter.
UpperOf ==
    [c \in {"A", "C", "G", "T", "a", "c", "g", "t"} |->
        CASE c \in {"A", "a"} -> "A"
          [] c \in {"C", "c"} -> "C"
          [] c \in {"G", "g"} -> "G"
          [] c \in {"T", "t"} -> "T"]

IsAcgtText(t) == \A i \in 1..Len(t) : t[i] \in DOMAIN UpperOf

FromDone == outcome.op = "Kmer::from"

\* C12: Kmer::from(text) returns Ok exactly when every character of text is one
\* of A, C, G, T in either case; an Ok result has one symbol per character and
\* reads as the upper-case text (nothing cut, nothing substituted, lower case
\* the same k-mer as upper case); an Err leaves no k-mer; "TCN" is refused and
\* "actG" accepted.
C12_FromAcceptsAcgtOnly ==
    FromDone =>
        /\ (outcome.kind = "ok") <=> IsAcgtText(arg.text)
        /\ outcome.kind \in {"ok", "err"}
        /\ outcome.kind = "ok" =>
              /\ kmer # NoKmer
              /\ Kmer_len(kmer[1]) = Len(arg.text)
              /\ to_string(kmer[1]) = [i \in 1..Len(arg.text) |-> UpperOf[arg.text[i]]]
        /\ outcome.kind = "err" => kmer = NoKmer
        /\ arg.text = <<"T", "C", "N">> => outcome.kind = "err"
        /\ arg.text = <<"a", "c", "t", "G">> => outcome.kind = "ok"

\* Kmer::from("actG") has returned the k-mer that prints "ACTG".
C12_Witness ==
    /\ FromOk
    /\ arg.text = <<"a", "c", "t", "G">>
    /\ to_string(kmer[1]) = <<"A", "C", "T", "G">>

-----------------------------------------------------------------------------
\* The same database through a second instance.

\* What a full pass of next() yields on a file opened for listing, from
\* position c on.
RECURSIVE ListingFrom(_, _)
ListingFrom(name, c) ==
    LET r == ffi_next([mode |-> "iter", db |-> name, cursor |-> c],
                      ffi_new_kmerapi_with_len(Database(name).k))
    IN  IF r.ok
        THEN <<[bits |-> as_u64(r.kmer), count |-> r.count]>> \o ListingFrom(name, r.cursor)
        ELSE <<>>

\* What count_kmer answers on a file opened for random access.
RaCount(name, k) == ffi_check_kmer([mode |-> "ra", db |-> name, cursor |-> 0], k)

\* The k-mer of k symbols with the packed value bits.
KmerOfBits(k, bits) == LastN(Zeros(k) \o bits, k)

\* C13: for one database, every record (b, c) a full Iterator-mode pass yields
\* has count_kmer = c in RandomAccess mode on the k-mer packed as b; and
\* count_kmer in RandomAccess mode is the count the pass yields for the
\* canonical form of the k-mer, 0 when the pass does not yield that form.
C13_LookupMatchesIteration ==
    /\ (mode = "iter" /\ done # NoDrain /\ kmer_length <= U64Digits)
          => \A i \in 1..Len(done[1]) :
                RaCount(db, KmerOfBits(kmer_length, done[1][i].bits)) = done[1][i].count
    /\ (mode = "ra" /\ outcome.op = "count_kmer" /\ Kmer_len(kmer[1]) = kmer_length
           /\ kmer_length <= U64Digits)
          => LET pass == ListingFrom(db, 0)
                 x == kmer[1]
                 canon == IF SeqLess(RevComp(x), x) THEN RevComp(x) ELSE x
                 hits == {i \in 1..Len(pass) : pass[i].bits = as_u64(canon)}
             IN  /\ hits = {} => outcome.val = 0
                 /\ \A i \in hits : outcome.val = pass[i].count

\* A full pass over the largest database has ended, and one of its records
\* has a count above 1.
C13_Witness ==
    /\ mode = "iter"
    /\ done # NoDrain
    /\ Len(done[1]) = MaxRecs
    /\ \E i \in 1..Len(done[1]) :
          /\ done[1][i].count > 1
          /\ RaCount(db, KmerOfBits(kmer_length, done[1][i].bits)) = done[1][i].count

-----------------------------------------------------------------------------
\* val mod 2^(2k), as a u64.
LowBits(val, k) == StripZeros(LastN(val, k))

\* C14: for k <= 32, Kmer::from_u64(k, val) has length k, its as_u64() is
\* val mod 2^(2k), its symbols are the low k bit pairs of val as they stand
\* (not the canonical form), and every val2 that agrees with val below bit 2k
\* gives the same text.
C14_FromU64TakesLowBits ==
    (FromU64Done /\ arg.k <= U64Digits) =>
        /\ Kmer_len(kmer[1]) = arg.k
        /\ as_u64(kmer[1]) = LowBits(arg.val, arg.k)
        /\ \A i \in 1..arg.k : kmer[1][i] = DigitAt(arg.val, arg.k, i)
        /\ \A val2 \in Vals :
              LowBits(val2, arg.k) = LowBits(arg.val, arg.k)
                 => to_string(ffi_set_u64(with_k(arg.k), val2).kmer) = to_string(kmer[1])

\* from_u64(31, 0b1_11...11_01), 63 bits, has returned the 31-mer of thirty T
\* and a C, which is not the smaller of itself and its reverse complement.
C14_Witness ==
    /\ FromU64Done
    /\ arg.k = 31
    /\ arg.val = Bits31T
    /\ LowBits(arg.val, arg.k) # StripZeros(arg.val)
    /\ to_string(kmer[1]) = [i \in 1..31 |-> IF i = 31 THEN "C" ELSE "T"]
    /\ SeqLess(RevComp(kmer[1]), kmer[1])

-----------------------------------------------------------------------------
\* Two callers of one KmcFile, each method call as two steps: the call begins
\* (the borrow of the receiver is taken), and it returns (its effect is done
\* and the borrow released). What may begin is what the borrow of the method's
\* receiver allows next to the borrows that are held.

Callers == {1, 2}

\* The methods that take &self (lib.rs 53, 129) ...
SharedOps == {"kmer_length", "count_kmer"}

\* ... and those that take &mut self (lib.rs 76, 123, 135, 147, 160).
ExclusiveOps == {"num_kmers", "restart", "read_next", "read_next_unchecked", "iter_u64"}

\* A receiver list in which restart takes &self.
BorrowRestartShared(op) ==
    IF op \in SharedOps \cup {"restart"} THEN "shared" ELSE "mut"

\* The borrow a call holds while it runs. KmcFileIterU64::next takes &mut self
\* of the iterator, which holds the &'a mut of the file.
Borrow(op) == IF op \in SharedOps THEN "shared" ELSE "mut"

\* A call of op on the KmcFile may begin: a &mut borrow next to no other
\* borrow, a & borrow next to & borrows; the iterator's borrow excludes both.
MayBegin(op) ==
    /\ ~it
    /\ IF Borrow(op) = "mut" THEN held = {}
       ELSE \A h \in held : Borrow(h.op) = "shared"

Call(c, op) == [caller |-> c, op |-> op]

\* Caller c calls a method of the KmcFile.
call_begin(c, op) ==
    /\ proc = "run"
    /\ fst = "open"
    /\ \A h \in held : h.caller # c
    /\ MayBegin(op)
    /\ op \in {"count_kmer", "read_next", "read_next_unchecked"} => kmer # NoKmer
    /\ op = "read_next_unchecked" => Kmer_len(kmer[1]) = kmer_length
    /\ held' = held \cup {Call(c, op)}
    /\ UNCHANGED <<debug, proc, fileVars, kmer, arg, outcome>>

\* Caller c calls next() of the iterator, a &mut self of the iterator.
call_begin_next(c) ==
    /\ proc = "run"
    /\ fst = "open"
    /\ it
    /\ held = {}
    /\ held' = held \cup {Call(c, "iter_next")}
    /\ UNCHANGED <<debug, proc, fileVars, kmer, arg, outcome>>

\* What the call does to the listing position, the buffer and the iterator.
ReadEffect(buf) ==
    LET r == ffi_next(Self, buf) IN
    [cursor |-> r.cursor, kmer |-> Some(r.kmer),
     outcome |-> IF r.ok THEN Ret("read_next", "some", r.count, "ok")
                 ELSE Ret("read_next", "none", 0, "failed")]

CallEffect(op) ==
    LET same == [cursor |-> cursor, kmer |-> kmer, it |-> it, proc |-> proc] IN
    CASE op = "kmer_length" ->
           same @@ [outcome |-> Ret("kmer_length", "value", kmer_length, "na")]
      [] op = "count_kmer" ->
           same @@ [outcome |-> Ret("count_kmer", "value", ffi_check_kmer(Self, kmer[1]), "na")]
      [] op = "num_kmers" ->
           same @@ [outcome |-> Ret("num_kmers", "value", ffi_kmer_count(Self), "na")]
      [] op = "restart" ->
           LET r == ffi_restart_listing(Self) IN
           [same EXCEPT !.cursor = r.cursor]
              @@ [outcome |-> Ret("restart", "value", r.ok, IF r.ok THEN "ok" ELSE "failed")]
      [] op = "read_next" ->
           IF Kmer_len(kmer[1]) = kmer_length
           THEN LET e == ReadEffect(kmer[1]) IN
                [same EXCEPT !.cursor = e.cursor, !.kmer = e.kmer] @@ [outcome |-> e.outcome]
           ELSE same @@ [outcome |-> Ret("read_next", "none", 0, "na")]
      [] op = "read_next_unchecked" ->
           LET e == ReadEffect(kmer[1]) IN
           [same EXCEPT !.cursor = e.cursor, !.kmer = e.kmer] @@ [outcome |-> e.outcome]
      [] op = "iter_u64" ->
           IF kmer_length > U8Max
           THEN [same EXCEPT !.proc = "unwind"] @@ [outcome |-> Ret("iter_u64", "panic", 0, "na")]
           ELSE [same EXCEPT !.it = TRUE] @@ [outcome |-> Ret("iter_u64", "value", 0, "na")]
      [] op = "iter_next" ->
           LET r == ffi_next(Self, with_k(kmer_length)) IN
           [same EXCEPT !.cursor = r.cursor]
              @@ [outcome |-> IF r.ok
                              THEN Ret("iter_next", "some",
                                       [bits |-> as_u64(r.kmer), count |-> r.count], "ok")
                              ELSE Ret("iter_next", "none", 0, "failed")]

\* The call of caller c returns.
call_end(c) ==
    /\ proc = "run"
    /\ \E h \in held :
          /\ h.caller = c
          /\ LET e == CallEffect(h.op) IN
                /\ cursor' = e.cursor
                /\ kmer' = e.kmer
                /\ it' = e.it
                /\ proc' = e.proc
                /\ outcome' = e.outcome
          /\ held' = held \ {h}
    /\ UNCHANGED <<debug, fst, mode, db, closes, arg, out, done, prev>>

NextOwn ==
    \/ \E fname \in DbNames : held = {} /\ open_ra(fname)
    \/ \E fname \in DbNames : held = {} /\ open_iter(fname)
    \/ \E k \in BufferKs : held = {} /\ Kmer_with_k(k)
    \/ \E c \in Callers, op \in SharedOps \cup ExclusiveOps : call_begin(c, op)
    \/ \E c \in Callers : call_begin_next(c)
    \/ \E c \in Callers : call_end(c)
    \/ held = {} /\ iter_drop

SpecOwn == Init /\ [][NextOwn]_vars

CursorOps == {"restart", "read_next", "read_next_unchecked", "iter_next"}

\* C15: no two calls that move the listing position of one KmcFile are in
\* progress at once, whichever callers make them; a call that moves it is in
\* progress next to no other call on the instance; and while the iterator of
\* iter_u64 is alive, no method of the KmcFile is in progress.
C15_NoOverlappingCursorMoves ==
    /\ \A h1, h2 \in held : (h1.op \in CursorOps /\ h2.op \in CursorOps) => h1 = h2
    /\ \A h \in held : h.op \in CursorOps \cup {"iter_u64"} => held = {h}
    /\ it => \A h \in held : h.op = "iter_next"

\* The second caller is inside read_next after an earlier read of the first
\* caller moved the listing position.
C15_Witness ==
    /\ held = {Call(2, "read_next")}
    /\ cursor > 0
    /\ cursor < Len(Recs)
    /\ mode = "iter"

\* Calls do overlap where the receivers allow it: two callers inside methods
\* that take &self.
SharedCallsOverlap == \E h1, h2 \in held : h1.caller # h2.caller

-----------------------------------------------------------------------------
\* C16 as stated: the iterator iter_u64 has just returned on an Iterator-mode
\* file yields every stored record, beginning with the first, wherever earlier
\* read_next calls or an earlier iterator left the listing position.
C16_IterU64StartsAtFirst ==
    (mode = "iter" /\ it /\ outcome.op = "iter_u64")
        => ListingFrom(db, cursor) = Stored

-----------------------------------------------------------------------------
\* The number a u64 of at most 15 digits stands for.
RECURSIVE NatOf(_)
NatOf(digits) ==
    IF digits = <<>> THEN 0
    ELSE 4 * NatOf(SubSeq(digits, 1, Len(digits) - 1)) + digits[Len(digits)]

\* The filter of the example: kmer.as_u64() >> 3 == 0b11_10 (lib.rs 67).
DocFilter(v) == (v \div 8) = 14

\* C17 as stated: the filter of the example holds of a 5-mer exactly when the
\* 5-mer starts with "TG".
C17_FilterSelectsTG ==
    (kmer # NoKmer /\ Kmer_len(kmer[1]) = 5)
        => (DocFilter(NatOf(as_u64(kmer[1])))
              <=> SubSeq(to_string(kmer[1]), 1, 2) = <<"T", "G">>)

-----------------------------------------------------------------------------
\* A step of an Iterator-mode file and what it does to the listing position.
CursorStep ==
    LET read == outcome'.op \in {"read_next", "iter_next"} IN
    /\ \/ cursor' = cursor
       \/ cursor' = cursor + 1 /\ read /\ outcome'.kind = "some"
       \/ cursor' = 0 /\ outcome'.op = "restart"
    /\ (read /\ outcome'.kind = "some") => cursor' = cursor + 1
    /\ outcome'.op = "restart" => cursor' = 0
    /\ (read /\ outcome'.kind = "none") => cursor' = cursor
    /\ outcome'.op \in {"kmer_length", "num_kmers", "count_kmer"} => cursor' = cursor

-----------------------------------------------------------------------------
\* read_next is called with a buffer of another length than the database's.
MismatchedRead ==
    /\ Callable
    /\ kmer # NoKmer
    /\ Kmer_len(kmer[1]) # kmer_length
    /\ outcome'.op = "read_next"

====
